---- MODULE Spec2Model ----
(***************************************************************************)
(* A model of the hook-composition engine of src/src/async-hook.ts: the    *)
(* registry (addHook, removeHook) and the invocation (register), one       *)
(* action per call of user code so that start and completion of every hook *)
(* are separate steps.                                                     *)
(*                                                                         *)
(* JavaScript values are modelled as sequences of strings, so that any two *)
(* of them can be compared: undefined is <<>>, the payload is <<"p">>, the *)
(* base operation's result is <<"r">>, the failure of a callable c is      *)
(* <<"err", c>>.                                                           *)
(***************************************************************************)
EXTENDS Naturals, Sequences, FiniteSets, TLC

\* ------------------------------------------------------------------ bounds

\* How many entries the registry holds at most, over all names.
MaxEntries == 3

\* The longest name list an invocation is given.
MaxList == 2

\* How many entries the registry holds at most when the invocation is given a
\* name list.
MaxListEntries == 2

\* How many entries the registry holds at most when the invocation is
\* followed to its end under fairness.
MaxLiveEntries == 1

\* ------------------------------------------------------------- the inputs

\* The four kinds, in the order bindApi binds them.
HookTypes == {"before", "error", "after", "wrap"}

\* The callables the consumer registers as hooks.
Hooks == {"h1", "h2"}

\* An argument the caller left out (JavaScript's undefined).
NoArg == "<undefined>"

\* The names the consumer uses: the empty string, an ordinary name, and a
\* name every object inherits a property for from Object.prototype.
Names == {"", "a", "constructor"}

\* The property names a registry created as {} inherits.
ProtoKeys == {"constructor"}

\* The base operation and something that is not a function.
BaseFn == "f"
NotFn == "notfn"

Undefined == <<>>
Payload == <<"p">>
BaseResult == <<"r">>
BaseError == <<"boom">>
TypeErr == <<"TypeError">>
InvalidArg == <<"method for hook must be a function">>

\* ---------------------------------------------------------------- the state

VARIABLES
    registry,   \* state.registry: own property name -> sequence of entries
    lastOp,     \* the last addHook/removeHook call, with the registry before it
    callerList, \* the array object the caller passes as a name list
    call,       \* the arguments of the current invocation
    frames,     \* the register calls in flight, outermost first
    log,        \* the calls of user code the current invocation made
    outcome,    \* how the current invocation ended
    cleared,    \* whether remove() was called and nothing was registered since, and
                \* how many entries the registry held when it was
    quiet       \* the current invocation was made while cleared held

vars == <<registry, lastOp, callerList, call, frames, log, outcome, cleared, quiet>>

\* ------------------------------------------------------------ the registry

\* JavaScript's truthiness of a name argument: undefined and "" are falsy.
Falsy(name) ==
    name \in {NoArg, ""}

\* The property key an argument indexes the registry with.
PropertyKey(name) ==
    IF name = NoArg THEN "undefined" ELSE name

HasOwn(reg, name) ==
    PropertyKey(name) \in DOMAIN reg

\* state.registry[name] is truthy: an own array, or an inherited property.
Truthy(reg, name) ==
    HasOwn(reg, name) \/ PropertyKey(name) \in ProtoKeys

\* state.registry[name] is one of the arrays addHook created.
IsArray(reg, name) ==
    HasOwn(reg, name)

\* The identity of a function object: a callable of the consumer, or the
\* closure addHook builds around orig, which never leaves the registry. Two
\* closures built for the same kind and callable are the same value here; the
\* code compares a closure only with the argument of remove, never with
\* another closure.
Identity(fn) ==
    <<fn>>

WrappedHook(kind, orig) ==
    <<"wrapped", kind, orig>>

NewEntry(kind, orig) ==
    [hook |-> WrappedHook(kind, orig), orig |-> Identity(orig), type |-> kind]

\* delete state.registry[name]
DeleteKey(reg, name) ==
    [k \in DOMAIN reg \ {PropertyKey(name)} |-> reg[k]]

\* state.registry[name] = value
SetKey(reg, name, value) ==
    [k \in DOMAIN reg \cup {PropertyKey(name)} |->
        IF k = PropertyKey(name) THEN value ELSE reg[k]]

\* addHook throws (push is not a function) on an inherited property.
AddThrows(reg, name) ==
    ~HasOwn(reg, name) /\ Truthy(reg, name)

AddHook(reg, kind, name, hook) ==
    IF AddThrows(reg, name)
    THEN reg
    ELSE LET arr == IF HasOwn(reg, name) THEN reg[PropertyKey(name)] ELSE <<>>
         IN  SetKey(reg, name, Append(arr, NewEntry(kind, hook)))

\* The index of the last entry that matches, not of the first.
FindLastIndex(hooks, hook) ==
    LET hits == {i \in 1..Len(hooks) :
                    hooks[i].orig = Identity(hook) \/ hooks[i].hook = Identity(hook)}
    IN  IF hits = {} THEN 0 ELSE CHOOSE i \in hits : \A j \in hits : i >= j

\* hooks.findIndex(item => item.orig === hook || item.hook === hook); 0 for -1.
FindIndex(hooks, hook) ==
    LET hits == {i \in 1..Len(hooks) :
                    hooks[i].orig = Identity(hook) \/ hooks[i].hook = Identity(hook)}
    IN  IF hits = {} THEN 0 ELSE CHOOSE i \in hits : \A j \in hits : i <= j

\* hooks.splice(index, 1)
Splice(hooks, index) ==
    [i \in 1..(Len(hooks) - 1) |-> IF i < index THEN hooks[i] ELSE hooks[i + 1]]

\* removeHook called without a hook argument, for these arguments, clears all.
RemovesAll(name, hook) ==
    Falsy(name) /\ hook = NoArg

\* removeHook throws (findIndex is not a function) on an inherited property.
RemoveThrows(reg, name, hook) ==
    /\ hook # NoArg
    /\ ~HasOwn(reg, name)
    /\ Truthy(reg, name)

\* removeHook without its first branch: remove() deletes one property only.
RemoveHookNoClear(reg, name, hook) ==
    IF hook = NoArg THEN DeleteKey(reg, name)
    ELSE IF ~IsArray(reg, name) THEN reg
    ELSE LET hooks == reg[PropertyKey(name)]
             index == FindIndex(hooks, hook)
         IN  IF index = 0 THEN reg
             ELSE IF Len(hooks) = 1 THEN DeleteKey(reg, name)
             ELSE SetKey(reg, name, Splice(hooks, index))

RemoveHook(reg, name, hook) ==
    IF RemovesAll(name, hook) THEN <<>>
    ELSE IF hook = NoArg THEN DeleteKey(reg, name)
    ELSE IF ~IsArray(reg, name) THEN reg
    ELSE LET hooks == reg[PropertyKey(name)]
             index == FindIndex(hooks, hook)
         IN  IF index = 0 THEN reg
             ELSE IF Len(hooks) = 1 THEN DeleteKey(reg, name)
             ELSE SetKey(reg, name, Splice(hooks, index))

NoOp ==
    [op |-> "none", kind |-> "-", name |-> "-", hook |-> "-", pre |-> <<>>, threw |-> FALSE]

\* The number of entries of the registry.
RECURSIVE SizeOver(_, _)
SizeOver(reg, keys) ==
    IF keys = {} THEN 0
    ELSE LET k == CHOOSE x \in keys : TRUE
         IN  Len(reg[k]) + SizeOver(reg, keys \ {k})

Size(reg) ==
    SizeOver(reg, DOMAIN reg)

NotCleared ==
    [since |-> FALSE, dropped |-> 0]

\* hook.before / hook.after / hook.error / hook.wrap (name, fn)
Add(kind, name, hook) ==
    /\ registry' = AddHook(registry, kind, name, hook)
    /\ cleared' = NotCleared
    /\ quiet' = FALSE
    /\ UNCHANGED <<callerList, call, frames, log, outcome>>

\* hook.remove(name?, fn?)
Remove(name, hook) ==
    /\ registry' = RemoveHook(registry, name, hook)
    /\ cleared' = IF name = NoArg /\ hook = NoArg
                  THEN [since |-> TRUE, dropped |-> Size(registry)]
                  ELSE cleared
    /\ UNCHANGED <<callerList, call, frames, log, outcome, quiet>>

\* A registration, observed: what was asked and the registry before it.
AddOp(kind, name, hook) ==
    /\ Add(kind, name, hook)
    /\ lastOp' = [op |-> "add", kind |-> kind, name |-> name, hook |-> hook,
                  pre |-> registry, threw |-> AddThrows(registry, name)]

\* A removal, observed: what was asked and the registry before it.
RemoveOp(name, hook) ==
    /\ Remove(name, hook)
    /\ lastOp' = [op |-> "remove", kind |-> "-", name |-> name, hook |-> hook,
                  pre |-> registry, threw |-> RemoveThrows(registry, name, hook)]

\* ---------------------------------------------- the consumer's callables

\* A callable of the consumer behaves as the kind it is registered with asks:
\* as a wrap hook it takes a callable and returns one, as any other hook it is
\* called for its outcome.
\* What a call of user code does: it returns, it throws synchronously, or it
\* returns a suspension that fails.
Outcomes == {"ok", "throw", "reject"}

\* What the engine sees of a before hook, an after hook or the base operation
\* called inside a then callback: a throw and a failed suspension both fail
\* the chain.
Seen(out) ==
    IF out = "ok" THEN "ok" ELSE "fail"

\* The failure a callable fails with.
Err(fn) ==
    <<"err", fn>>

\* What a hook returns when it returns: h1 a value, h2 nothing.
Ret(fn) ==
    IF fn = "h1" THEN <<"v">> ELSE Undefined

\* The result of the callable a wrap hook returns: the wrapper awaits the
\* callable it was given, with the payload it received, and marks the result
\* (test/async-hook.test.ts: `wrapped:${await fn(options)}`).
Transform(w, value) ==
    <<w>> \o value

\* The result of wn(...w1(f)...) when f answers value; wraps is <<w1,...,wn>>.
RECURSIVE Tagged(_, _)
Tagged(wraps, value) ==
    IF wraps = <<>> THEN value
    ELSE Transform(wraps[Len(wraps)], Tagged(SubSeq(wraps, 1, Len(wraps) - 1), value))

\* ----------------------------------------------------------- the invocation

\* The check of line 127 left out: anything is taken for a function.
IsCallableAny(method) ==
    TRUE

\* typeof method === "function"
IsCallable(method) ==
    method # NotFn

\* The reduction run over the list as the caller wrote it.
NoReverse(list) ==
    list

\* name.reverse(): the caller's array, reversed in place.
Reverse(list) ==
    [i \in 1..Len(list) |-> list[Len(list) + 1 - i]]

\* this.register.bind(this, name, callback, options): the names the bound
\* callable will register under, outermost first, around the base operation.
Bind(name, callback) ==
    [names |-> <<name>> \o callback.names, fn |-> callback.fn]

\* names.reduce((callback, name) => bind(name, callback), method)
RECURSIVE Reduce(_, _)
Reduce(names, callback) ==
    IF names = <<>> THEN callback
    ELSE Reduce(Tail(names), Bind(Head(names), callback))

\* slice(1) for slice(): the copy misses the first entry.
SliceFromOne(hooks) ==
    IF hooks = <<>> THEN hooks ELSE Tail(hooks)

\* this.state.registry[name].slice()
Slice(hooks) ==
    hooks

\* hooks.filter(h => h.type === kind)
Filter(hooks, kind) ==
    SelectSeq(hooks, LAMBDA h : h.type = kind)

\* The wrap hooks, last registered first.
WrapHooksReversed(hooks) ==
    Reverse(Filter(hooks, "wrap"))

WrapHooks(hooks) ==
    Filter(hooks, "wrap")

\* The before hooks, last registered first.
BeforeHooksReversed(hooks) ==
    Reverse(Filter(hooks, "before"))

BeforeHooks(hooks) ==
    Filter(hooks, "before")

AfterHooks(hooks) ==
    Filter(hooks, "after")

ErrorHooks(hooks) ==
    Filter(hooks, "error")

\* The callable behind an entry's orig.
Fn(entry) ==
    entry.orig[1]

\* The entries the registry holds for a name (none when it has no array).
EntriesOf(reg, name) ==
    IF HasOwn(reg, name) THEN reg[PropertyKey(name)] ELSE <<>>

\* A call of register(name, method, options) whose body has not run yet.
\* hooks is the copy the body takes of the name's entries; entries is what the
\* registry held for the name at that moment.
NewFrame(name, method, options) ==
    [name |-> name, method |-> method, options |-> options, pc |-> "start",
     hooks |-> <<>>, wrapped |-> <<>>, i |-> 1,
     result |-> Undefined, error |-> Undefined, entries |-> <<>>]

Top ==
    frames[Len(frames)]

SetTop(frame) ==
    [frames EXCEPT ![Len(frames)] = frame]

Front(s) ==
    SubSeq(s, 1, Len(s) - 1)

\* A call of user code as the log records it; depth tells which of the nested
\* register calls made it (1 for the outermost, 0 for a call made by none).
Event(ev, kind, fn, name, a1, a2, out) ==
    [ev |-> ev, kind |-> kind, fn |-> fn, name |-> name, a1 |-> a1, a2 |-> a2, out |-> out,
     depth |-> IF frames # <<>> /\ Top.pc = "bareRun" THEN 0 ELSE Len(frames)]

\* promise.then(() => beforeHook.orig(options))
BeforeArgs(options) ==
    <<options, Undefined>>

\* afterHook.orig(currentResult, options)
AfterArgs(currentResult, options) ==
    <<currentResult, options>>

\* The error hook called with its arguments in the order of a before hook.
ErrorArgsSwapped(error, options) ==
    <<options, error>>

\* errorHook.orig(error, options)
ErrorArgs(error, options) ==
    <<error, options>>

\* The after chain carrying on what the hook returned.
AfterResultReturned(currentResult, returned) ==
    returned

\* .then(() => currentResult): what the after chain carries on.
AfterResult(currentResult, returned) ==
    currentResult

\* The sequencing built around method instead of wrappedMethod: the after
\* hooks get what the base operation answered.
MethodSettledRaw(frame, ok, value) ==
    IF ok
    THEN [frame EXCEPT !.result = value, !.pc = "after", !.i = 1]
    ELSE [frame EXCEPT !.error = value, !.pc = "error", !.i = 1]

\* wrappedMethod settled inside methodWithBefore: on to the after hooks, or
\* to the catch of the error layer.
MethodSettled(frame, ok, value) ==
    IF ok
    THEN [frame EXCEPT !.result = Tagged(frame.wrapped, value), !.pc = "after", !.i = 1]
    ELSE [frame EXCEPT !.error = value, !.pc = "error", !.i = 1]

\* The suspension of the innermost register call settled: each register call
\* that awaited it as its method continues, or settles with it when it had
\* called the method directly (no entry for its name).
RECURSIVE Resolve(_, _, _)
Resolve(fs, ok, value) ==
    IF fs = <<>>
    THEN [frames |-> <<>>,
          outcome |-> [status |-> IF ok THEN "ok" ELSE "fail", value |-> value]]
    ELSE IF fs[Len(fs)].pc = "directRun"
    THEN Resolve(Front(fs), ok, value)
    ELSE [frames |-> [fs EXCEPT ![Len(fs)] = MethodSettled(fs[Len(fs)], ok, value)],
          outcome |-> outcome]

Settle(ok, value) ==
    LET r == Resolve(Front(frames), ok, value)
    IN  /\ frames' = r.frames
        /\ outcome' = r.outcome

Pending ==
    [status |-> "pending", value |-> Undefined]

\* hook(name, method, options) with a single name
CallName(name, method) ==
    /\ outcome.status = "none"
    /\ call' = [kind |-> "name", name |-> name, list |-> <<>>, method |-> method]
    /\ log' = <<>>
    /\ quiet' = cleared.since
    /\ IF ~IsCallable(method)
       THEN /\ outcome' = [status |-> "threw", value |-> InvalidArg]
            /\ frames' = <<>>
       ELSE /\ outcome' = Pending
            /\ frames' = <<NewFrame(name, [names |-> <<>>, fn |-> method], Payload)>>
    /\ UNCHANGED <<registry, lastOp, callerList, cleared>>

\* register called with an array: the reduction, and the call of what it
\* returns with no argument.
RegisterList(list, method) ==
    /\ call' = [kind |-> "list", name |-> NoArg, list |-> list, method |-> method]
    /\ quiet' = cleared.since
    /\ IF ~IsCallable(method)
       THEN /\ outcome' = [status |-> "threw", value |-> InvalidArg]
            /\ frames' = <<>>
            /\ log' = <<>>
            /\ callerList' = list
       ELSE LET reversed == Reverse(list)
                chain == Reduce(reversed, [names |-> <<>>, fn |-> method])
            IN  /\ callerList' = reversed
                /\ outcome' = Pending
                /\ IF chain.names = <<>>
                   THEN /\ log' = <<Event("start", "base", method, NoArg,
                                          Undefined, Undefined, "-")>>
                        /\ frames' = <<[NewFrame(NoArg, chain, Undefined)
                                          EXCEPT !.pc = "bareRun"]>>
                   ELSE /\ log' = <<>>
                        /\ frames' = <<NewFrame(Head(chain.names),
                                          [names |-> Tail(chain.names), fn |-> chain.fn],
                                          Payload)>>
    /\ UNCHANGED <<registry, lastOp, cleared>>

\* hook([n1, ..., nk], method, options)
CallList(list, method) ==
    /\ outcome.status = "none"
    /\ RegisterList(list, method)

\* The caller invokes again with the array object of the invocation that has
\* settled, as that object is now, and the same base operation.
CallAgain ==
    /\ call.kind = "list"
    /\ outcome.status \in {"ok", "fail", "threw"}
    /\ RegisterList(callerList, call.method)

\* The body of register runs: the lookup, the snapshot, or the direct call.
Build ==
    /\ frames # <<>>
    /\ Top.pc = "start"
    /\ log' = log
    /\ IF ~Truthy(registry, Top.name)
       THEN /\ frames' = SetTop([Top EXCEPT !.pc = "direct"])
            /\ outcome' = outcome
       ELSE IF ~IsArray(registry, Top.name)
       THEN Settle(FALSE, TypeErr)
       ELSE LET hooks == Slice(registry[PropertyKey(Top.name)])
            IN  /\ frames' = SetTop([Top EXCEPT
                        !.hooks = hooks,
                        !.entries = EntriesOf(registry, Top.name),
                        !.pc = IF WrapHooks(hooks) = <<>> THEN "before" ELSE "wrap"])
                /\ outcome' = outcome
    /\ UNCHANGED <<registry, lastOp, callerList, call, cleared, quiet>>

\* wrappedMethod = wrapHook.orig(wrappedMethod)
ApplyWrap(out) ==
    /\ frames # <<>>
    /\ Top.pc = "wrap"
    /\ out \in {"ok", "throw"}
    /\ LET ws == WrapHooks(Top.hooks)
           w == Fn(ws[Top.i])
       IN  /\ log' = Append(log, Event("apply", "wrap", w, Top.name,
                                       Top.wrapped, Undefined, out))
           /\ IF out = "ok"
              THEN /\ frames' = SetTop([Top EXCEPT
                          !.wrapped = Append(@, w),
                          !.i = IF Top.i = Len(ws) THEN 1 ELSE @ + 1,
                          !.pc = IF Top.i = Len(ws) THEN "before" ELSE @])
                   /\ outcome' = outcome
              ELSE Settle(FALSE, Err(w))
    /\ UNCHANGED <<registry, lastOp, callerList, call, cleared, quiet>>

\* The before hooks called one after the other without the chain of thens:
\* the hook is called and the loop goes on before it has settled.
StartBeforeUnchained ==
    /\ frames # <<>>
    /\ Top.pc = "before"
    /\ Top.i <= Len(BeforeHooks(Top.hooks))
    /\ LET h == Fn(BeforeHooks(Top.hooks)[Top.i])
           args == BeforeArgs(Top.options)
       IN  log' = Append(log, Event("start", "before", h, Top.name, args[1], args[2], "-"))
    /\ frames' = SetTop([Top EXCEPT !.i = @ + 1])
    /\ UNCHANGED <<registry, lastOp, callerList, call, outcome, cleared, quiet>>

\* promise.then(() => beforeHook.orig(options)): the hook is called.
StartBefore ==
    /\ frames # <<>>
    /\ Top.pc = "before"
    /\ Top.i <= Len(BeforeHooks(Top.hooks))
    /\ LET h == Fn(BeforeHooks(Top.hooks)[Top.i])
           args == BeforeArgs(Top.options)
       IN  log' = Append(log, Event("start", "before", h, Top.name, args[1], args[2], "-"))
    /\ frames' = SetTop([Top EXCEPT !.pc = "beforeRun"])
    /\ UNCHANGED <<registry, lastOp, callerList, call, outcome, cleared, quiet>>

\* The before chain going on to its next link after a hook that failed.
CompleteBeforeGoesOn(out) ==
    /\ frames # <<>>
    /\ Top.pc = "beforeRun"
    /\ LET h == Fn(BeforeHooks(Top.hooks)[Top.i])
       IN  /\ log' = Append(log, Event("end", "before", h, Top.name,
                                       Undefined, Undefined, Seen(out)))
           /\ frames' = SetTop([Top EXCEPT !.pc = "before", !.i = @ + 1])
    /\ UNCHANGED <<registry, lastOp, callerList, call, outcome, cleared, quiet>>

\* The before hook settled: the next link of the chain, or the catch.
CompleteBefore(out) ==
    /\ frames # <<>>
    /\ Top.pc = "beforeRun"
    /\ LET h == Fn(BeforeHooks(Top.hooks)[Top.i])
       IN  /\ log' = Append(log, Event("end", "before", h, Top.name,
                                       Undefined, Undefined, Seen(out)))
           /\ frames' = SetTop(
                  IF out = "ok"
                  THEN [Top EXCEPT !.pc = "before", !.i = @ + 1]
                  ELSE [Top EXCEPT !.pc = "error", !.i = 1, !.error = Err(h)])
    /\ UNCHANGED <<registry, lastOp, callerList, call, outcome, cleared, quiet>>

\* method(options) or promise.then(() => wrappedMethod(options)): the base
\* operation is called, or the register call bound for the next name.
StartMethod ==
    /\ frames # <<>>
    /\ \/ Top.pc = "direct"
       \/ Top.pc = "before" /\ Top.i > Len(BeforeHooks(Top.hooks))
    /\ LET run == IF Top.pc = "direct" THEN "directRun" ELSE "methodRun"
           m == Top.method
       IN  IF m.names = <<>>
           THEN /\ log' = Append(log, Event("start", "base", m.fn, Top.name,
                                            Top.options, Undefined, "-"))
                /\ frames' = SetTop([Top EXCEPT !.pc = run])
           ELSE /\ log' = log
                /\ frames' = Append(SetTop([Top EXCEPT !.pc = run]),
                                    NewFrame(Head(m.names),
                                             [names |-> Tail(m.names), fn |-> m.fn],
                                             Top.options))
    /\ UNCHANGED <<registry, lastOp, callerList, call, outcome, cleared, quiet>>

\* The base operation settled.
CompleteMethod(out) ==
    /\ frames # <<>>
    /\ Top.pc \in {"directRun", "methodRun", "bareRun"}
    /\ Top.method.names = <<>>
    /\ log' = Append(log, Event("end", "base", Top.method.fn, Top.name,
                                Undefined, Undefined,
                                IF Top.pc = "bareRun" THEN out ELSE Seen(out)))
    /\ IF Top.pc = "methodRun"
       THEN /\ frames' = SetTop(MethodSettled(Top, out = "ok",
                                    IF out = "ok" THEN BaseResult ELSE BaseError))
            /\ outcome' = outcome
       ELSE IF Top.pc = "bareRun" /\ out = "throw"
       THEN /\ frames' = <<>>
            /\ outcome' = [status |-> "threw", value |-> BaseError]
       ELSE Settle(out = "ok", IF out = "ok" THEN BaseResult ELSE BaseError)
    /\ UNCHANGED <<registry, lastOp, callerList, call, cleared, quiet>>

\* promise.then(currentResult => afterHook.orig(currentResult, options))
StartAfter ==
    /\ frames # <<>>
    /\ Top.pc = "after"
    /\ Top.i <= Len(AfterHooks(Top.hooks))
    /\ LET h == Fn(AfterHooks(Top.hooks)[Top.i])
           args == AfterArgs(Top.result, Top.options)
       IN  log' = Append(log, Event("start", "after", h, Top.name, args[1], args[2], "-"))
    /\ frames' = SetTop([Top EXCEPT !.pc = "afterRun"])
    /\ UNCHANGED <<registry, lastOp, callerList, call, outcome, cleared, quiet>>

\* The after chain going on to its next link after a hook that failed.
CompleteAfterGoesOn(out) ==
    /\ frames # <<>>
    /\ Top.pc = "afterRun"
    /\ LET h == Fn(AfterHooks(Top.hooks)[Top.i])
       IN  /\ log' = Append(log, Event("end", "after", h, Top.name,
                                       Undefined, Undefined, Seen(out)))
           /\ frames' = SetTop([Top EXCEPT !.pc = "after", !.i = @ + 1])
    /\ UNCHANGED <<registry, lastOp, callerList, call, outcome, cleared, quiet>>

\* The after hook settled: .then(() => currentResult), or the catch.
CompleteAfter(out) ==
    /\ frames # <<>>
    /\ Top.pc = "afterRun"
    /\ LET h == Fn(AfterHooks(Top.hooks)[Top.i])
       IN  /\ log' = Append(log, Event("end", "after", h, Top.name,
                                       Undefined, Undefined, Seen(out)))
           /\ frames' = SetTop(
                  IF out = "ok"
                  THEN [Top EXCEPT !.pc = "after", !.i = @ + 1,
                                   !.result = AfterResult(@, Ret(h))]
                  ELSE [Top EXCEPT !.pc = "error", !.i = 1, !.error = Err(h)])
    /\ UNCHANGED <<registry, lastOp, callerList, call, outcome, cleared, quiet>>

\* return promise: every after hook has run, the register call resolves.
Finish ==
    /\ frames # <<>>
    /\ Top.pc = "after"
    /\ Top.i > Len(AfterHooks(Top.hooks))
    /\ log' = log
    /\ Settle(TRUE, Top.result)
    /\ UNCHANGED <<registry, lastOp, callerList, call, cleared, quiet>>

\* try { return errorHook.orig(error, options) }: the hook is called.
StartError ==
    /\ frames # <<>>
    /\ Top.pc = "error"
    /\ Top.i <= Len(ErrorHooks(Top.hooks))
    /\ LET h == Fn(ErrorHooks(Top.hooks)[Top.i])
           args == ErrorArgs(Top.error, Top.options)
       IN  log' = Append(log, Event("start", "error", h, Top.name, args[1], args[2], "-"))
    /\ frames' = SetTop([Top EXCEPT !.pc = "errorRun"])
    /\ UNCHANGED <<registry, lastOp, callerList, call, outcome, cleared, quiet>>

\* The error hook returned (its value, or its failed suspension, is what the
\* catch returns), or it threw and the loop goes on.
CompleteError(out) ==
    /\ frames # <<>>
    /\ Top.pc = "errorRun"
    /\ LET h == Fn(ErrorHooks(Top.hooks)[Top.i])
       IN  /\ log' = Append(log, Event("end", "error", h, Top.name,
                                       Undefined, Undefined, out))
           /\ IF out = "throw"
              THEN /\ frames' = SetTop([Top EXCEPT !.pc = "error", !.i = @ + 1])
                   /\ outcome' = outcome
              ELSE Settle(out = "ok", IF out = "ok" THEN Ret(h) ELSE Err(h))
    /\ UNCHANGED <<registry, lastOp, callerList, call, cleared, quiet>>

\* The catch callback ending without the throw: it resolves to undefined.
RethrowMissing ==
    /\ frames # <<>>
    /\ Top.pc = "error"
    /\ Top.i > Len(ErrorHooks(Top.hooks))
    /\ log' = log
    /\ Settle(TRUE, Undefined)
    /\ UNCHANGED <<registry, lastOp, callerList, call, cleared, quiet>>

\* The catch callback returning a suspension that never settles.
RethrowNever ==
    /\ frames # <<>>
    /\ Top.pc = "error"
    /\ Top.i > Len(ErrorHooks(Top.hooks))
    /\ log' = log
    /\ frames' = SetTop([Top EXCEPT !.pc = "never"])
    /\ outcome' = outcome
    /\ UNCHANGED <<registry, lastOp, callerList, call, cleared, quiet>>

\* throw error: no error hook returned.
Rethrow ==
    /\ frames # <<>>
    /\ Top.pc = "error"
    /\ Top.i > Len(ErrorHooks(Top.hooks))
    /\ log' = log
    /\ Settle(FALSE, Top.error)
    /\ UNCHANGED <<registry, lastOp, callerList, call, cleared, quiet>>

\* ------------------------------------------------------- the specifications

\* The name lists a caller passes.
Lists ==
    UNION {[1..n -> Names] : n \in 0..MaxList}

Init ==
    /\ registry = <<>>
    /\ lastOp = NoOp
    /\ callerList = <<>>
    /\ call = [kind |-> "none", name |-> NoArg, list |-> <<>>, method |-> NotFn]
    /\ frames = <<>>
    /\ log = <<>>
    /\ outcome = [status |-> "none", value |-> Undefined]
    /\ cleared = NotCleared
    /\ quiet = FALSE

Step ==
    \/ Build
    \/ \E out \in Outcomes : ApplyWrap(out)
    \/ StartBefore
    \/ \E out \in Outcomes : CompleteBefore(out)
    \/ StartMethod
    \/ \E out \in Outcomes : CompleteMethod(out)
    \/ StartAfter
    \/ \E out \in Outcomes : CompleteAfter(out)
    \/ Finish
    \/ StartError
    \/ \E out \in Outcomes : CompleteError(out)
    \/ Rethrow

\* One invocation with a single name of a registry that registrations and
\* removals have built; the registry is left alone once the invocation is made.
Next ==
    \/ \E kind \in HookTypes, name \in Names, hook \in Hooks :
          /\ outcome.status = "none"
          /\ Size(registry) < MaxEntries
          /\ Add(kind, name, hook)
          /\ UNCHANGED lastOp
    \/ \E name \in Names \cup {NoArg}, hook \in Hooks \cup {NoArg} :
          /\ outcome.status = "none"
          /\ Remove(name, hook)
          /\ UNCHANGED lastOp
    \/ \E name \in Names, method \in {BaseFn, NotFn} : CallName(name, method)
    \/ Step

Spec == Init /\ [][Next]_vars

\* One invocation, with a single name or with a name list, of a registry that
\* registrations and removals have built.
NextList ==
    \/ \E kind \in HookTypes, name \in Names, hook \in Hooks :
          /\ outcome.status = "none"
          /\ Size(registry) < MaxListEntries
          /\ Add(kind, name, hook)
          /\ UNCHANGED lastOp
    \/ \E name \in Names \cup {NoArg}, hook \in Hooks \cup {NoArg} :
          /\ outcome.status = "none"
          /\ Remove(name, hook)
          /\ UNCHANGED lastOp
    \/ \E name \in Names, method \in {BaseFn, NotFn} : CallName(name, method)
    \/ \E list \in Lists, method \in {BaseFn, NotFn} : CallList(list, method)
    \/ Step

SpecList == Init /\ [][NextList]_vars

\* A before, after or error hook of the current invocation is running.
HookRunning ==
    /\ frames # <<>>
    /\ Top.pc \in {"beforeRun", "afterRun", "errorRun"}

\* The hook that is running calls hook.before / after / error / wrap, the
\* only such call of the invocation.
HookAdds(kind, name, hook) ==
    /\ HookRunning
    /\ lastOp.op = "none"
    /\ AddOp(kind, name, hook)

\* The hook that is running calls hook.remove, the only such call of the
\* invocation.
HookRemoves(name, hook) ==
    /\ HookRunning
    /\ lastOp.op = "none"
    /\ RemoveOp(name, hook)

\* One invocation, with a single name or with a name list, one of whose hooks
\* registers or removes a hook while the invocation is in flight.
NextInFlight ==
    \/ \E kind \in HookTypes, name \in Names, hook \in Hooks :
          /\ outcome.status = "none"
          /\ Size(registry) < MaxListEntries
          /\ Add(kind, name, hook)
          /\ UNCHANGED lastOp
    \/ \E name \in Names, method \in {BaseFn, NotFn} : CallName(name, method)
    \/ \E list \in Lists, method \in {BaseFn, NotFn} : CallList(list, method)
    \/ Step
    \/ \E kind \in HookTypes, name \in Names, hook \in Hooks : HookAdds(kind, name, hook)
    \/ \E name \in Names \cup {NoArg}, hook \in Hooks \cup {NoArg} : HookRemoves(name, hook)

SpecInFlight == Init /\ [][NextInFlight]_vars

\* One invocation, with a single name or with a name list, followed to its
\* end.
NextLive ==
    \/ \E kind \in HookTypes, name \in Names, hook \in Hooks :
          /\ outcome.status = "none"
          /\ Size(registry) < MaxLiveEntries
          /\ Add(kind, name, hook)
          /\ UNCHANGED lastOp
    \/ \E name \in Names, method \in {BaseFn, NotFn} : CallName(name, method)
    \/ \E list \in Lists, method \in {BaseFn, NotFn} : CallList(list, method)
    \/ Step

\* Every callback the engine has queued is run in the end: the job queue of
\* the host runs each then and catch callback once the suspension it waits
\* for has settled, and every call of user code returns.
SpecLive == Init /\ [][NextLive]_vars /\ WF_vars(Step)

\* Invocations with a name list, each after the first with the array object
\* of the one before.
NextAgain ==
    \/ \E kind \in HookTypes, name \in Names, hook \in Hooks :
          /\ outcome.status = "none"
          /\ Size(registry) < MaxListEntries
          /\ Add(kind, name, hook)
          /\ UNCHANGED lastOp
    \/ \E list \in Lists, method \in {BaseFn, NotFn} : CallList(list, method)
    \/ Step
    \/ CallAgain

SpecAgain == Init /\ [][NextAgain]_vars

\* Registrations and removals, each observed, and one invocation with a single
\* name made after them.
NextAfter ==
    \/ \E kind \in HookTypes, name \in Names, hook \in Hooks :
          /\ outcome.status = "none"
          /\ Size(registry) < MaxListEntries
          /\ AddOp(kind, name, hook)
    \/ \E name \in Names \cup {NoArg}, hook \in Hooks \cup {NoArg} :
          /\ outcome.status = "none"
          /\ RemoveOp(name, hook)
    \/ \E name \in Names, method \in {BaseFn, NotFn} : CallName(name, method)
    \/ Step

SpecAfter == Init /\ [][NextAfter]_vars

\* The registry alone, every registration and removal observed.
NextRegistry ==
    \/ \E kind \in HookTypes, name \in Names, hook \in Hooks :
          Size(registry) < MaxEntries /\ AddOp(kind, name, hook)
    \/ \E name \in Names \cup {NoArg}, hook \in Hooks \cup {NoArg} :
          RemoveOp(name, hook)

SpecRegistry == Init /\ [][NextRegistry]_vars

\* ------------------------------------------------------------- the claims
\* What the claims speak of, stated on the registry and the log alone.

\* The entries the registry holds under a name.
Held(name) ==
    IF name \in DOMAIN registry THEN registry[name] ELSE <<>>

\* The callables registered under a name with a kind, in registration order.
Registered(name, kind) ==
    LET picked == SelectSeq(Held(name), LAMBDA e : e.type = kind)
    IN  [i \in 1..Len(picked) |-> picked[i].orig[1]]

\* The places of the log where a call of a kind started, ended or was applied.
Positions(ev, kind) ==
    {p \in 1..Len(log) : log[p].ev = ev /\ log[p].kind = kind}

\* Those events, in the order of the log.
Events(ev, kind) ==
    SelectSeq(log, LAMBDA e : e.ev = ev /\ e.kind = kind)

\* No call of user code failed so far.
NoFailure ==
    \A p \in 1..Len(log) : log[p].out \in {"-", "ok"}

\* The invocation was made with a single name and a callable base operation.
SingleName ==
    call.kind = "name" /\ call.method = BaseFn

Settled ==
    outcome.status \in {"ok", "fail", "threw"}

\* What wn(...w1(f)...) answers for the wrap hooks registered under a name.
ExpectedResult(name) ==
    LET w == Registered(name, "wrap")
    IN  [i \in 1..Len(w) |-> w[Len(w) + 1 - i]] \o BaseResult

\* C1: in an invocation in which no step fails, the before hooks registered
\* under the name are called in registration order, each with the payload of
\* the invocation, each completing before anything else is called, and the
\* base operation is called with the same payload after the last of them has
\* completed.
C1_BeforeHooksInOrder ==
    (SingleName /\ outcome.status = "ok" /\ NoFailure) =>
        LET B == Registered(call.name, "before")
            starts == Events("start", "before")
        IN  /\ Len(starts) = Len(B)
            /\ \A k \in 1..Len(B) : starts[k].fn = B[k] /\ starts[k].a1 = Payload
            /\ \A p \in Positions("start", "before") :
                  /\ p < Len(log)
                  /\ log[p + 1].ev = "end"
                  /\ log[p + 1].kind = "before"
                  /\ log[p + 1].fn = log[p].fn
            /\ Cardinality(Positions("start", "base")) = 1
            /\ \A p \in Positions("start", "base") :
                  /\ log[p].a1 = Payload
                  /\ \A q \in Positions("end", "before") : q < p

\* C1's case: two different before hooks ran and the invocation succeeded.
C1_Witness ==
    /\ SingleName /\ outcome.status = "ok" /\ NoFailure
    /\ Len(Registered(call.name, "before")) >= 2
    /\ Registered(call.name, "before")[1] # Registered(call.name, "before")[2]

\* C2: once the wrapped base operation has succeeded with result r, the after
\* hooks registered under the name are called in registration order, only
\* after the base operation has completed, each with r and the payload; when
\* none of them fails the invocation resolves to r, whatever they returned.
C2_AfterHooksKeepResult ==
    (SingleName /\ \E p \in Positions("end", "base") : log[p].out = "ok") =>
        LET A == Registered(call.name, "after")
            starts == Events("start", "after")
            r == ExpectedResult(call.name)
        IN  /\ Len(starts) <= Len(A)
            /\ \A k \in 1..Len(starts) :
                  /\ starts[k].fn = A[k]
                  /\ starts[k].a1 = r
                  /\ starts[k].a2 = Payload
            /\ \A p \in Positions("start", "after"), q \in Positions("end", "base") : q < p
            /\ (Settled /\ NoFailure) =>
                  /\ Len(starts) = Len(A)
                  /\ outcome = [status |-> "ok", value |-> r]

\* C2's case: two after hooks ran, one of which returns a value of its own.
C2_Witness ==
    /\ SingleName /\ outcome.status = "ok" /\ NoFailure
    /\ Len(Events("end", "after")) >= 2
    /\ \E p \in Positions("end", "after") : Ret(log[p].fn) # Undefined

\* A before hook, the base operation or an after hook failed at place p.
StepFailed(p) ==
    /\ log[p].ev = "end"
    /\ log[p].kind \in {"before", "base", "after"}
    /\ log[p].out = "fail"

\* The failure of the call that ended at place p.
FailureAt(p) ==
    IF log[p].kind = "base" THEN BaseError ELSE Err(log[p].fn)

\* C3: when a before hook, the wrapped base operation or an after hook fails
\* with E and error hooks are registered under the name, the next call is the
\* first error hook, with E and the payload; if it returns v (a value or
\* nothing) the invocation resolves to v and no other hook is called.
C3_FirstErrorHookDecides ==
    SingleName =>
        \A p \in 1..Len(log) :
            (StepFailed(p) /\ Registered(call.name, "error") # <<>>) =>
                LET first == Registered(call.name, "error")[1]
                IN  /\ p = Len(log) => outcome.status = "pending"
                    /\ p < Len(log) =>
                          /\ log[p + 1].ev = "start"
                          /\ log[p + 1].kind = "error"
                          /\ log[p + 1].fn = first
                          /\ log[p + 1].a1 = FailureAt(p)
                          /\ log[p + 1].a2 = Payload
                    /\ (p + 2 <= Len(log) /\ log[p + 2].out = "ok") =>
                          /\ Len(log) = p + 2
                          /\ outcome = [status |-> "ok", value |-> Ret(first)]

\* C3's case: two error hooks are registered, a step failed and the first
\* error hook returned nothing.
C3_Witness ==
    /\ SingleName
    /\ Len(Registered(call.name, "error")) = 2
    /\ \E p \in 1..Len(log) :
          StepFailed(p) /\ p + 2 = Len(log) /\ log[p + 2].out = "ok"
    /\ outcome = [status |-> "ok", value |-> Undefined]

\* C4: with no error hook and no wrap hook registered under the name, an
\* invocation whose base operation failed with E fails with E, whatever
\* before and after hooks are registered.
C4_FailureUnchanged ==
    (/\ SingleName
     /\ Registered(call.name, "error") = <<>>
     /\ Registered(call.name, "wrap") = <<>>
     /\ \E p \in Positions("end", "base") : log[p].out = "fail"
     /\ Settled) =>
        outcome = [status |-> "fail", value |-> BaseError]

\* C4's case: the base operation failed between a before and an after hook.
C4_Witness ==
    /\ SingleName
    /\ Registered(call.name, "error") = <<>>
    /\ Registered(call.name, "before") # <<>>
    /\ Registered(call.name, "after") # <<>>
    /\ \E p \in Positions("end", "base") : log[p].out = "fail"
    /\ outcome = [status |-> "fail", value |-> BaseError]

\* C5: an invocation with a name under which the registry holds no entry
\* calls the base operation with the payload and nothing else, and ends as
\* the base operation ends.
C5_NoEntriesSameAsDirect ==
    (SingleName /\ Held(call.name) = <<>> /\ Settled) =>
        /\ Len(log) = 2
        /\ log[1].ev = "start" /\ log[1].kind = "base" /\ log[1].a1 = Payload
        /\ log[2].ev = "end" /\ log[2].kind = "base"
        /\ outcome = IF log[2].out = "ok"
                     THEN [status |-> "ok", value |-> BaseResult]
                     ELSE [status |-> "fail", value |-> BaseError]

\* C6: the wrap hooks registered under the name are applied in registration
\* order, each once, each to what the previous application returned (the base
\* operation for the first); the base operation is called only when all of
\* them are applied, and the invocation resolves to wn(...w1(f)...)'s result.
C6_WrapsNestInOrder ==
    SingleName =>
        LET W == Registered(call.name, "wrap")
            applied == Events("apply", "wrap")
        IN  /\ Len(applied) <= Len(W)
            /\ \A k \in 1..Len(applied) :
                  /\ applied[k].fn = W[k]
                  /\ applied[k].a1 = SubSeq(W, 1, k - 1)
            /\ Positions("start", "base") # {} =>
                  /\ Len(applied) = Len(W)
                  /\ \A k \in 1..Len(applied) : applied[k].out = "ok"
            /\ (outcome.status = "ok" /\ NoFailure) =>
                  outcome.value = ExpectedResult(call.name)

\* C6's case: two different wrap hooks were applied and the invocation
\* resolved.
C6_Witness ==
    /\ SingleName /\ outcome.status = "ok" /\ NoFailure
    /\ Len(Registered(call.name, "wrap")) >= 2
    /\ Registered(call.name, "wrap")[1] # Registered(call.name, "wrap")[2]

\* C7: whatever the order in which hooks of different kinds were registered
\* under the name, the wrap hooks are applied first, every before hook has
\* ended when the wrapped base operation starts, every after hook starts
\* after it has succeeded and receives the wrap-transformed result, and the
\* invocation resolves to the wrap-transformed result.
C7_SequencingAroundWrappedBase ==
    SingleName =>
        /\ \A a \in Positions("apply", "wrap") :
              \A p \in 1..Len(log) : log[p].ev # "apply" => a < p
        /\ \A p \in Positions("start", "before") \cup Positions("end", "before") :
              \A q \in Positions("start", "base") : p < q
        /\ \A p \in Positions("start", "after") :
              /\ \E q \in Positions("end", "base") : q < p /\ log[q].out = "ok"
              /\ log[p].a1 = ExpectedResult(call.name)
        /\ (outcome.status = "ok" /\ NoFailure) =>
              /\ outcome.value = ExpectedResult(call.name)
              /\ Len(Events("end", "before")) = Len(Registered(call.name, "before"))
              /\ Len(Events("end", "after")) = Len(Registered(call.name, "after"))

\* C7's case: a wrap hook registered after a before and an after hook of the
\* same name, and the invocation resolved.
C7_Witness ==
    /\ SingleName /\ outcome.status = "ok" /\ NoFailure
    /\ Len(Held(call.name)) = 3
    /\ Held(call.name)[1].type = "after"
    /\ Held(call.name)[2].type = "before"
    /\ Held(call.name)[3].type = "wrap"

\* The entries the registry held under a name before the last operation.
PreHeld(name) ==
    IF name \in DOMAIN lastOp.pre THEN lastOp.pre[name] ELSE <<>>

\* Every name but this one holds what it held before the last operation.
OthersUntouched(name) ==
    \A m \in (DOMAIN lastOp.pre \cup DOMAIN registry) \ {name} : Held(m) = PreHeld(m)

\* C8: remove(name, hook) deletes the first entry of the name whose callable
\* is hook and nothing else: the other entries of the name keep their order,
\* the other names keep their entries, and with no match nothing changes.
C8_RemoveFirstMatch ==
    (lastOp.op = "remove" /\ lastOp.hook # NoArg /\ lastOp.name # NoArg) =>
        LET e == PreHeld(lastOp.name)
            hits == {i \in 1..Len(e) : e[i].orig = <<lastOp.hook>>}
        IN  /\ OthersUntouched(lastOp.name)
            /\ IF hits = {}
               THEN Held(lastOp.name) = e
               ELSE \E i \in hits :
                       /\ \A j \in hits : i <= j
                       /\ Len(Held(lastOp.name)) = Len(e) - 1
                       /\ \A k \in 1..(Len(e) - 1) :
                             Held(lastOp.name)[k] = IF k < i THEN e[k] ELSE e[k + 1]

\* C8's case: the callable was registered twice under the name, around
\* another entry, and remove(name, hook) was called.
C8_Witness ==
    /\ lastOp.op = "remove" /\ lastOp.hook # NoArg /\ lastOp.name # NoArg
    /\ Len(PreHeld(lastOp.name)) = 3
    /\ {i \in 1..3 : PreHeld(lastOp.name)[i].orig = <<lastOp.hook>>} = {1, 3}

\* C9: remove(n) with a name string n and no hook leaves nothing under n and
\* leaves every other name's entries as they were.
C9_RemoveNameOnly ==
    (lastOp.op = "remove" /\ lastOp.hook = NoArg /\ lastOp.name \in Names) =>
        /\ Held(lastOp.name) = <<>>
        /\ OthersUntouched(lastOp.name)

\* C10: after remove() the registry holds nothing, and an invocation made
\* before anything is registered again, with a name or with a name list,
\* calls no hook: the log holds calls of the base operation only.
C10_RemoveAllThenNoHooks ==
    /\ cleared.since => DOMAIN registry = {}
    /\ quiet => \A p \in 1..Len(log) : log[p].kind = "base"

\* C10's case: remove() dropped two entries or more, and an invocation with a
\* list of two names was made next and resolved.
C10_Witness ==
    /\ quiet
    /\ cleared.dropped >= 2
    /\ call.kind = "list" /\ Len(call.list) = 2
    /\ outcome.status = "ok"

\* The invocation was made with a name list and a callable base operation.
ListCall ==
    call.kind = "list" /\ call.method = BaseFn

\* How many times a name occurs in a list.
Count(list, name) ==
    Cardinality({i \in 1..Len(list) : list[i] = name})

\* The places of the log where a call of one of these kinds, made for a name,
\* started or ended.
PositionsOf(ev, kinds, name) ==
    {p \in 1..Len(log) : log[p].ev = ev /\ log[p].kind \in kinds /\ log[p].name = name}

\* The callables the registry holds under a name with a kind.
HeldAs(name, kind) ==
    {Held(name)[i].orig[1] : i \in {k \in 1..Len(Held(name)) : Held(name)[k].type = kind}}

\* C11: in an invocation with the name list [n1, ..., nk] the hooks called
\* at depth i are hooks of ni. Every before hook call precedes the call of
\* the base operation, and when the base operation is called every ni has had
\* all its before hooks run; for i < j the before hooks of ni are called
\* before those of nj, and its after and error hooks after those of nj.
\* The log only grows, by one call at a time, so each of these is stated of
\* the last call of the log against the calls before it.
C11_FirstNameOutermost ==
    (ListCall /\ log # <<>>) =>
        LET last == log[Len(log)]
            before == 1..(Len(log) - 1)
        IN  /\ last.kind \in HookTypes =>
                  /\ last.depth \in 1..Len(call.list)
                  /\ last.name = call.list[last.depth]
                  /\ last.fn \in HeldAs(last.name, last.kind)
            /\ last.kind = "before" =>
                  \A p \in before : log[p].kind # "base"
            /\ (last.kind = "base" /\ last.ev = "start") =>
                  \A i \in 1..Len(call.list) :
                      Cardinality({q \in before :
                                      /\ log[q].ev = "end" /\ log[q].kind = "before"
                                      /\ log[q].depth = i /\ log[q].out = "ok"}) =
                          Len(Registered(call.list[i], "before"))
            /\ (last.kind = "before" /\ last.ev = "start") =>
                  \A p \in before :
                      log[p].kind = "before" => log[p].depth <= last.depth
            /\ (last.kind \in {"after", "error"} /\ last.ev = "start") =>
                  \A p \in before :
                      log[p].kind \in {"after", "error"} => log[p].depth >= last.depth

\* C11's case: a list of two different names, a before hook under each, and
\* the invocation resolved.
C11_Witness ==
    /\ ListCall
    /\ Len(call.list) = 2
    /\ call.list[1] # call.list[2]
    /\ Registered(call.list[1], "before") # <<>>
    /\ Registered(call.list[2], "before") # <<>>
    /\ outcome.status = "ok"

\* C12: an invocation whose base operation is not callable, with a name or
\* with a name list, throws the invalid-argument failure at the call: no call
\* of user code is made then or later, no register call is in flight, and the
\* registry is what it was.
C12_NotCallableFailsAtOnce ==
    /\ []((call.kind # "none" /\ call.method = NotFn) =>
              /\ outcome = [status |-> "threw", value |-> InvalidArg]
              /\ log = <<>>
              /\ frames = <<>>)
    /\ [][(outcome.status = "none" /\ outcome'.status # "none" /\ call'.method = NotFn) =>
              registry' = registry]_vars

\* C12's case: a list of two names with a hook under each, and something that
\* is not a function in place of the base operation.
C12_Witness ==
    /\ call.kind = "list" /\ call.method = NotFn
    /\ Len(call.list) = 2
    /\ Held(call.list[1]) # <<>>
    /\ Held(call.list[2]) # <<>>
    /\ outcome.status = "threw"

\* C13: an invocation with an empty name list throws the invalid-argument
\* failure at the call and calls nothing.
C13_EmptyListInvalid ==
    (call.kind = "list" /\ call.list = <<>>) =>
        /\ outcome = [status |-> "threw", value |-> InvalidArg]
        /\ log = <<>>

\* The call after place p of the log, once made, is the first error hook of
\* the name, called with failure e and the payload.
ThenFirstErrorHook(p, e) ==
    /\ p = Len(log) => outcome.status = "pending"
    /\ p < Len(log) =>
          /\ log[p + 1].ev = "start"
          /\ log[p + 1].kind = "error"
          /\ log[p + 1].fn = Registered(call.name, "error")[1]
          /\ log[p + 1].a1 = e
          /\ log[p + 1].a2 = Payload

\* Nothing was called after place p of the log, and the invocation, once
\* settled, has failed with e.
ThenFailsWith(p, e) ==
    /\ p = Len(log)
    /\ outcome.status \in {"pending", "fail"}
    /\ Settled => outcome.value = e

\* C14: when a before hook fails with E, no later before hook is called, the
\* base operation is never called and no after hook is called; with error
\* hooks under the name the next call is the first of them, with E and the
\* payload, and with none the invocation fails with E.
C14_BeforeFailureIsTheFailure ==
    SingleName =>
        \A p \in Positions("end", "before") :
            log[p].out = "fail" =>
                /\ \A q \in (p + 1)..Len(log) : log[q].kind = "error"
                /\ Positions("start", "base") = {}
                /\ Positions("start", "after") = {}
                /\ IF Registered(call.name, "error") = <<>>
                   THEN ThenFailsWith(p, Err(log[p].fn))
                   ELSE ThenFirstErrorHook(p, Err(log[p].fn))

\* C14's case: the first of two before hooks failed, an after hook is
\* registered, no error hook is, and the invocation has failed.
C14_Witness ==
    /\ SingleName
    /\ Len(Registered(call.name, "before")) = 2
    /\ Len(Registered(call.name, "after")) = 1
    /\ Len(log) = 2
    /\ log[2].kind = "before" /\ log[2].out = "fail"
    /\ outcome.status = "fail"

\* C15: when an after hook fails with E, the after hooks registered after it
\* are not called; with error hooks under the name the next call is the first
\* of them, with E and the payload, and with none the invocation fails with E.
C15_AfterFailureIsTheFailure ==
    SingleName =>
        \A p \in Positions("end", "after") :
            log[p].out = "fail" =>
                /\ \A q \in (p + 1)..Len(log) : log[q].kind = "error"
                /\ IF Registered(call.name, "error") = <<>>
                   THEN ThenFailsWith(p, Err(log[p].fn))
                   ELSE ThenFirstErrorHook(p, Err(log[p].fn))

\* C15's case: the first of two after hooks failed, no error hook is
\* registered, and the invocation has failed.
C15_Witness ==
    /\ SingleName
    /\ Len(Registered(call.name, "after")) = 2
    /\ Registered(call.name, "error") = <<>>
    /\ Cardinality(Positions("end", "after")) = 1
    /\ \E p \in Positions("end", "after") : log[p].out = "fail"
    /\ outcome.status = "fail"

\* C16: whenever an error hook fails, by a throw or by a failed suspension,
\* the next call is the next error hook of the name, with the failure the
\* first one was called with and the payload; after the last error hook has
\* failed the invocation fails with that original failure.
C16_OneChainingPolicy ==
    SingleName =>
        \A p \in Positions("end", "error") :
            log[p].out \in {"throw", "reject"} =>
                LET E == Registered(call.name, "error")
                    k == Cardinality({q \in Positions("end", "error") : q <= p})
                    original == log[p - 1].a1
                IN  IF k < Len(E)
                    THEN /\ p = Len(log) => outcome.status = "pending"
                         /\ p < Len(log) =>
                               /\ log[p + 1].ev = "start"
                               /\ log[p + 1].kind = "error"
                               /\ log[p + 1].fn = E[k + 1]
                               /\ log[p + 1].a1 = original
                               /\ log[p + 1].a2 = Payload
                    ELSE ThenFailsWith(p, original)

\* No before hook, base operation or after hook has failed.
NoStepFailed ==
    \A p \in 1..Len(log) :
        log[p].kind \in {"before", "base", "after"} => log[p].out \in {"-", "ok"}

\* Some error hook has returned normally.
SomeErrorHookReturned ==
    \E p \in Positions("end", "error") : log[p].out = "ok"

\* C17: a settled invocation with a callable base operation, with a name or a
\* name list, has resolved only if no before hook, base operation or after
\* hook failed or some error hook returned normally, and in every other case
\* it has ended as a failed suspension.
C17_SuccessOnlyIfHandled ==
    (call.kind # "none" /\ call.method = BaseFn /\ Settled) =>
        /\ outcome.status = "ok" => (NoStepFailed \/ SomeErrorHookReturned)
        /\ ~(NoStepFailed \/ SomeErrorHookReturned) => outcome.status = "fail"

\* C18: under a name with error hooks, a failure of the application of a wrap
\* hook, of a before hook, of the wrapped base operation or of an after hook
\* is followed by the call of the name's first error hook with that failure
\* and the payload.
C18_ErrorHooksSeeEveryFailure ==
    (SingleName /\ Registered(call.name, "error") # <<>>) =>
        \A p \in 1..Len(log) :
            (/\ log[p].kind \in {"wrap", "before", "base", "after"}
             /\ log[p].out \notin {"-", "ok"}) =>
                ThenFirstErrorHook(p, FailureAt(p))

\* The entries the registry held under a name when the current invocation was
\* made: those it holds now, or those it held before the one registration or
\* removal that a hook of the invocation has made since.
HeldAtBuild(name) ==
    IF lastOp.op = "none" THEN Held(name) ELSE PreHeld(name)

\* The callables those entries register with a kind.
RegisteredAtBuild(name, kind) ==
    LET picked == SelectSeq(HeldAtBuild(name), LAMBDA e : e.type = kind)
    IN  {picked[i].orig[1] : i \in 1..Len(picked)}

\* How many of those entries are of a kind.
CountAtBuild(name, kind) ==
    Len(SelectSeq(HeldAtBuild(name), LAMBDA e : e.type = kind))

\* The names of the current invocation, outermost first.
CallNames ==
    IF call.kind = "list" THEN call.list ELSE <<call.name>>

\* C19: every hook an invocation calls, under its name or under any name of
\* its list, is one the registry held under that name with that kind when
\* the invocation was made, and an invocation that resolved without calling
\* an error hook has called every before and after hook the registry held
\* then under its names (once per occurrence of the name), whatever a hook
\* registered or removed while the invocation was in flight.
C19_SnapshotAtBuild ==
    (call.kind # "none" /\ call.method = BaseFn) =>
        /\ \A p \in 1..Len(log) :
              log[p].kind \in HookTypes =>
                  log[p].fn \in RegisteredAtBuild(log[p].name, log[p].kind)
        /\ (outcome.status = "ok" /\ Positions("start", "error") = {}) =>
              \A i \in 1..Len(CallNames) :
                  \A kind \in {"before", "after"} :
                      Cardinality(PositionsOf("end", {kind}, CallNames[i])) =
                          CountAtBuild(CallNames[i], kind) * Count(CallNames, CallNames[i])

\* The callables of the calls of a kind that started (for a wrap hook: that
\* were applied), in the order of the log.
Called(kind) ==
    LET e == SelectSeq(log, LAMBDA x : x.kind = kind /\ x.ev \in {"start", "apply"})
    IN  [i \in 1..Len(e) |-> e[i].fn]

\* s is the beginning of t.
IsPrefix(s, t) ==
    Len(s) <= Len(t) /\ s = SubSeq(t, 1, Len(s))

\* C20: an invocation made after registrations and removals calls, of each
\* kind, the callables of the entries the registry then holds under the name,
\* in registration order and none twice as often as it is held: as far as the
\* invocation got, and all the before, after and wrap hooks when nothing
\* failed, all the error hooks when a step failed and every error hook threw.
\* A hook registered under the name by the last operation is among them, and
\* after remove(name) as the last operation there is none.
C20_RunsWhatRegistryHolds ==
    SingleName =>
        /\ \A kind \in HookTypes : IsPrefix(Called(kind), Registered(call.name, kind))
        /\ (outcome.status = "ok" /\ NoFailure) =>
              \A kind \in {"wrap", "before", "after"} :
                  Called(kind) = Registered(call.name, kind)
        /\ (/\ outcome.status = "fail"
            /\ \E p \in 1..Len(log) : StepFailed(p)
            /\ \A q \in Positions("end", "error") : log[q].out = "throw") =>
              Called("error") = Registered(call.name, "error")
        /\ (/\ lastOp.op = "add" /\ lastOp.name = call.name /\ ~lastOp.threw
            /\ lastOp.kind # "error"
            /\ outcome.status = "ok" /\ NoFailure) =>
              /\ Called(lastOp.kind) # <<>>
              /\ Called(lastOp.kind)[Len(Called(lastOp.kind))] = lastOp.hook
        /\ (lastOp.op = "remove" /\ lastOp.name = call.name /\ lastOp.hook = NoArg) =>
              \A kind \in HookTypes : Called(kind) = <<>>

\* C20's case: two entries were registered under the name, remove(name, hook)
\* took the first of them away, and the invocation made next ran the other
\* and resolved.
C20_Witness ==
    /\ SingleName /\ outcome.status = "ok" /\ NoFailure
    /\ lastOp.op = "remove" /\ lastOp.name = call.name /\ lastOp.hook # NoArg
    /\ Len(PreHeld(call.name)) = 2
    /\ Len(Held(call.name)) = 1
    /\ Held(call.name)[1] = PreHeld(call.name)[2]
    /\ Held(call.name)[1].type \in {"before", "after"}
    /\ Len(log) = 4

\* No wrap hook is registered under a name of the current invocation.
NoWrapHooks ==
    \A i \in 1..Len(CallNames) :
        \A k \in 1..Len(Held(CallNames[i])) : Held(CallNames[i])[k].type # "wrap"

\* The events at places p and q of the log are of the same call.
SameCall(p, q) ==
    /\ log[p].kind = log[q].kind
    /\ log[p].fn = log[q].fn
    /\ log[p].depth = log[q].depth

\* C21: in an invocation with no wrap hook, with a name or a name list, the
\* calls of the hooks and of the base operation do not overlap: a call starts
\* only when the call before it has completed, and what follows a start is
\* the completion of that call. The log only grows, by one event at a time,
\* so this is stated of its last event against the one before.
C21_OneStepAtATime ==
    (call.kind # "none" /\ call.method = BaseFn /\ log # <<>> /\ NoWrapHooks) =>
        LET n == Len(log)
        IN  /\ log[n].ev \in {"start", "end"}
            /\ log[n].ev = "start" =>
                  /\ outcome.status = "pending"
                  /\ n > 1 => log[n - 1].ev = "end"
            /\ log[n].ev = "end" =>
                  n > 1 /\ log[n - 1].ev = "start" /\ SameCall(n - 1, n)

\* C21's case: an invocation with a list of two names that called a before
\* hook, the base operation and an after hook, and resolved.
C21_Witness ==
    /\ ListCall /\ NoWrapHooks
    /\ Len(call.list) = 2
    /\ Cardinality(Positions("end", "before")) >= 1
    /\ Cardinality(Positions("end", "after")) >= 1
    /\ Cardinality(Positions("end", "base")) = 1
    /\ outcome.status = "ok"

\* No before hook has failed.
NoBeforeFailed ==
    \A p \in Positions("end", "before") : log[p].out = "ok"

\* C22: in an invocation with no wrap hook and a callable base operation,
\* with a name or a name list, the base operation is called at most once,
\* whatever fails, and it has been called exactly once when the invocation
\* has settled and no before hook failed.
C22_BaseCalledOnce ==
    (call.kind # "none" /\ call.method = BaseFn /\ NoWrapHooks) =>
        /\ Cardinality(Positions("start", "base")) <= 1
        /\ (Settled /\ NoBeforeFailed) => Cardinality(Positions("start", "base")) = 1

\* C23: when every call of user code terminates, an invocation with a
\* callable base operation that is pending settles in the end, as a success
\* or as a failure, and once it has settled nothing more is called and its
\* outcome stays.
C23_EventuallySettles ==
    /\ (outcome.status = "pending") ~> Settled
    /\ [][Settled => (log' = log /\ outcome' = outcome /\ frames' = frames)]_vars

\* C23's case: an invocation with a list of two names in which the base
\* operation failed and an error hook threw has settled as a failure.
C23_Witness ==
    /\ ListCall
    /\ Len(call.list) = 2
    /\ \E p \in Positions("end", "base") : log[p].out = "fail"
    /\ \E p \in Positions("end", "error") : log[p].out = "throw"
    /\ outcome.status = "fail"
    /\ frames = <<>>

\* C24: an invocation with a name list leaves the array it was given as it
\* was, and an invocation made next with the same array applies the names in
\* the order of the first.
C24_CallerListKept ==
    /\ [](call.kind = "list" => callerList = call.list)
    /\ [][(/\ call.kind = "list"
            /\ outcome.status \in {"ok", "fail", "threw"}
            /\ outcome'.status \notin {"ok", "fail", "threw"}) =>
              call'.list = call.list]_vars

====
